---- MODULE Spec2Model ----
(***************************************************************************)
(* Model of the question-answering training pipeline:                      *)
(*   - the driver train() of questionanswering/train_model.py,             *)
(*   - the vocabulary life cycle, the instance encoder and the candidate   *)
(*     ranking of CharCNNModel and YihModel in models/char_based.py.       *)
(* Each part has its own specification (SpecTrain, SpecVocab, SpecRuns,    *)
(* SpecEncode, SpecRank); a specification keeps the variables of the other *)
(* parts at their initial values.                                          *)
(***************************************************************************)
EXTENDS Integers, Sequences, FiniteSets, TLC

VARIABLES
    \* ---- train_model.train ----
    pc,              \* position of the driver inside train()
    config,          \* the loaded configuration (the input of the run)
    seedSet,         \* np.random.seed was called
    loggerCreated,   \* the stream logger was created
    results_logger,   \* results_logger is not None
    resultsLog,      \* lines written through results_logger's file handler
    calls,           \* pipeline calls made so far, in order
    prepared,        \* trainablemodel.prepare_model returned normally
    wdaccess_p,      \* wdaccess.wdaccess_p, the backend parameters
    files,           \* files the driver itself opened for writing
    error,           \* the exception that ended the run, or "none"
    \* ---- CharCNNModel / YihModel objects ----
    klass,           \* the model class of the objects
    vocabulary,      \* per object: _character2idx / _trigram_vocabulary
    vocabSize,       \* per object: _p['vocab.size'] (-1: not set)
    kerasModel,      \* per object: _model is set
    siblingModel,    \* per object: _sibling_model is set
    disk,            \* the vocabulary JSON file
    lastOp,          \* the last operation run on an object
    corpus,          \* the fixed train_tokens of SpecRuns
    \* ---- encode_data_instance ----
    params,          \* _p, the model parameters the encoder reads
    instance,        \* the instance handed to encode_data_instance
    encoded,         \* the arrays encode_data_instance returned
    \* ---- apply_on_instance ----
    sentence_embedding,  \* predict_on_batch(tokens_encoded)[0]
    edge_embeddings,     \* predict_on_batch(edges_encoded)
    ranking              \* the index array apply_on_instance returned

trainVars == <<pc, config, seedSet, loggerCreated, results_logger, resultsLog,
               calls, prepared, wdaccess_p, files, error>>
objVars == <<klass, vocabulary, vocabSize, kerasModel, siblingModel, disk,
             lastOp, corpus>>
encVars == <<params, instance, encoded>>
rankVars == <<sentence_embedding, edge_embeddings, ranking>>
vars == <<trainVars, objVars, encVars, rankVars>>

None == "None"

(***************************************************************************)
(* Bounds of the model.                                                    *)
(***************************************************************************)
MaxGold == 1          \* validation questions with gold answers: 0..MaxGold

(***************************************************************************)
(* Part 1: the driver, train_model.train.                                  *)
(***************************************************************************)
ModelClasses == {"CharCNNModel", "YihModel", "NonKerasModel"}

\* isinstance(trainablemodel, KerasModel): both classes of char_based.py are
\* TwinsModel subclasses; NonKerasModel stands for a class that is not.
IsKerasModel(c) == c \in {"CharCNNModel", "YihModel"}

\* Positional parameters prepare_model takes after self.
PrepareModelArity(c) == 1

Configs ==
    [training : BOOLEAN,          \* "training" in config
     logResults : BOOLEAN,        \* 'log.results' in config['training']
     class : ModelClasses,        \* config['model']['class']
     edgeLabels : BOOLEAN,        \* config['model'].get('vocabulary.with.edgelabels', True)
     trainGenerator : BOOLEAN,    \* config['training'].get('train.generator', False)
     trainValidation : BOOLEAN,   \* 'train_validation' in config['webquestions']['path.to.dataset']
     evaluate : BOOLEAN,          \* config['wikidata'].get('evaluate', False)
     nGold : 0..MaxGold]          \* len(validation_gold_answers)

WdaccessDefault ==
    [wikidata_url |-> "module", restrict_hop |-> "module", timeout |-> "module"]
WdaccessConfigured ==
    [wikidata_url |-> "config", restrict_hop |-> "config", timeout |-> "config"]

Call(fn, args) == [fn |-> fn, args |-> args]

TrainInit ==
    /\ pc = "load_config"
    /\ config \in Configs
    /\ seedSet = FALSE
    /\ loggerCreated = FALSE
    /\ results_logger = FALSE
    /\ resultsLog = <<>>
    /\ calls = <<>>
    /\ prepared = FALSE
    /\ wdaccess_p = WdaccessDefault
    /\ files = {}
    /\ error = "none"

TrainIdle ==
    /\ pc = "idle"
    /\ config = [training |-> FALSE, logResults |-> FALSE, class |-> "NonKerasModel",
                 edgeLabels |-> FALSE, trainGenerator |-> FALSE,
                 trainValidation |-> FALSE, evaluate |-> FALSE, nGold |-> 0]
    /\ seedSet = FALSE
    /\ loggerCreated = FALSE
    /\ results_logger = FALSE
    /\ resultsLog = <<>>
    /\ calls = <<>>
    /\ prepared = FALSE
    /\ wdaccess_p = WdaccessDefault
    /\ files = {}
    /\ error = "none"

Goto(next) == pc' = next /\ error' = error
Raise(exc) == pc' = "error" /\ error' = exc

\* LoadConfig without the sys.exit() of line 27.
LoadConfigNoExit ==
    /\ pc = "load_config"
    /\ Goto("setup")
    /\ UNCHANGED <<config, seedSet, loggerCreated, results_logger, resultsLog,
                   calls, prepared, wdaccess_p, files>>
    /\ UNCHANGED <<objVars, encVars, rankVars>>

\* lines 24-27
LoadConfig ==
    /\ pc = "load_config"
    /\ IF config.training THEN Goto("setup") ELSE Goto("exited")
    /\ UNCHANGED <<config, seedSet, loggerCreated, results_logger, resultsLog,
                   calls, prepared, wdaccess_p, files>>
    /\ UNCHANGED <<objVars, encVars, rankVars>>

\* lines 29-37
Setup ==
    /\ pc = "setup"
    /\ seedSet' = TRUE
    /\ loggerCreated' = TRUE
    /\ Goto("results_logger")
    /\ UNCHANGED <<config, results_logger, resultsLog, calls, prepared,
                   wdaccess_p, files>>
    /\ UNCHANGED <<objVars, encVars, rankVars>>

\* lines 39-46
SetupResultsLogger ==
    /\ pc = "results_logger"
    /\ IF config.logResults
       THEN /\ results_logger' = TRUE
            /\ files' = files \cup {"log.results"}
            /\ resultsLog' = Append(resultsLog, "config")
       ELSE UNCHANGED <<results_logger, files, resultsLog>>
    /\ Goto("dataset")
    /\ UNCHANGED <<config, seedSet, loggerCreated, calls, prepared, wdaccess_p>>
    /\ UNCHANGED <<objVars, encVars, rankVars>>

\* lines 48-51
LoadDataset ==
    /\ pc = "dataset"
    /\ calls' = Append(calls, Call("WebQuestions", <<>>))
    /\ Goto("model")
    /\ UNCHANGED <<config, seedSet, loggerCreated, results_logger, resultsLog,
                   prepared, wdaccess_p, files>>
    /\ UNCHANGED <<objVars, encVars, rankVars>>

\* line 53
CreateModel ==
    /\ pc = "model"
    /\ Goto("prepare")
    /\ UNCHANGED <<config, seedSet, loggerCreated, results_logger, resultsLog,
                   calls, prepared, wdaccess_p, files>>
    /\ UNCHANGED <<objVars, encVars, rankVars>>

\* The arguments of the driver's prepare_model call (lines 55-56).
PrepareArgs ==
    << IF config.edgeLabels THEN "get_training_tokens" ELSE "get_question_tokens",
       "get_property_set" >>

\* lines 54-56: a call whose argument count the method does not take raises
\* TypeError before the method body runs.
DriverPrepareModel ==
    /\ pc = "prepare"
    /\ IF IsKerasModel(config.class)
       THEN /\ calls' = Append(calls, Call("prepare_model", PrepareArgs))
            /\ IF Len(PrepareArgs) = PrepareModelArity(config.class)
               THEN prepared' = TRUE /\ Goto("train")
               ELSE prepared' = prepared /\ Raise("TypeError")
       ELSE /\ Goto("train")
            /\ UNCHANGED <<calls, prepared>>
    /\ UNCHANGED <<config, seedSet, loggerCreated, results_logger, resultsLog,
                   wdaccess_p, files>>
    /\ UNCHANGED <<objVars, encVars, rankVars>>

\* The validation_with_targets argument of the training call (lines 59-60, 63-64).
ValidationArg ==
    IF config.trainValidation THEN "get_validation_samples" ELSE None

\* The training call (lines 57-64).
TrainCall ==
    IF config.trainGenerator
    THEN Call("train_on_generator", <<"get_training_generator", ValidationArg>>)
    ELSE Call("train", <<"get_training_samples", ValidationArg>>)

\* lines 57-64
Train ==
    /\ pc = "train"
    /\ calls' = Append(calls, TrainCall)
    /\ Goto("silver")
    /\ UNCHANGED <<config, seedSet, loggerCreated, results_logger, resultsLog,
                   prepared, wdaccess_p, files>>
    /\ UNCHANGED <<objVars, encVars, rankVars>>

\* silver_test_set with the two branches of lines 65-68 swapped.
silver_test_set_swapped ==
    IF config.trainValidation THEN "get_full_training" ELSE "get_full_validation"

\* The labeled set handed to test_on_silver (lines 65-68).
silver_test_set ==
    IF config.trainValidation THEN "get_full_validation" ELSE "get_full_training"

\* TestOnSilver placed before the training call.
TestOnSilverBeforeTrain ==
    /\ pc = "train"
    /\ calls' = Append(calls, Call("test_on_silver", <<silver_test_set>>))
    /\ Goto("train_after_test")
    /\ UNCHANGED <<config, seedSet, loggerCreated, results_logger, resultsLog,
                   prepared, wdaccess_p, files>>
    /\ UNCHANGED <<objVars, encVars, rankVars>>

\* lines 65-70
TestOnSilver ==
    /\ pc = "silver"
    /\ calls' = Append(calls, Call("test_on_silver", <<silver_test_set>>))
    /\ Goto("dump")
    /\ UNCHANGED <<config, seedSet, loggerCreated, results_logger, resultsLog,
                   prepared, wdaccess_p, files>>
    /\ UNCHANGED <<objVars, encVars, rankVars>>

\* lines 71-74: config['training']['log.results'] is read unconditionally.
DumpSilverPredictions ==
    /\ pc = "dump"
    /\ IF config.logResults
       THEN files' = files \cup {"silver_predictions"} /\ Goto("log_silver")
       ELSE files' = files /\ Raise("KeyError")
    /\ UNCHANGED <<config, seedSet, loggerCreated, results_logger, resultsLog,
                   calls, prepared, wdaccess_p>>
    /\ UNCHANGED <<objVars, encVars, rankVars>>

\* lines 76-77
LogSilver ==
    /\ pc = "log_silver"
    /\ resultsLog' = IF results_logger THEN Append(resultsLog, "silver_accuracy")
                     ELSE resultsLog
    /\ Goto("live_gate")
    /\ UNCHANGED <<config, seedSet, loggerCreated, results_logger, calls,
                   prepared, wdaccess_p, files>>
    /\ UNCHANGED <<objVars, encVars, rankVars>>

\* The condition of line 79 without its second conjunct.
LiveEvaluationUngated == config.evaluate

\* The condition of line 79.
LiveEvaluationEnabled == config.evaluate /\ config.trainValidation

\* line 79
LiveGate ==
    /\ pc = "live_gate"
    /\ IF LiveEvaluationEnabled THEN Goto("live_init") ELSE Goto("done")
    /\ UNCHANGED <<config, seedSet, loggerCreated, results_logger, resultsLog,
                   calls, prepared, wdaccess_p, files>>
    /\ UNCHANGED <<objVars, encVars, rankVars>>

\* lines 80-84
LiveInit ==
    /\ pc = "live_init"
    /\ wdaccess_p' = WdaccessConfigured
    /\ calls' = calls \o << Call("sparql_init", <<>>),
                            Call("update_sparql_clauses", <<>>) >>
    /\ Goto("live_test")
    /\ UNCHANGED <<config, seedSet, loggerCreated, results_logger, resultsLog,
                   prepared, files>>
    /\ UNCHANGED <<objVars, encVars, rankVars>>

\* lines 86-88
LiveTest ==
    /\ pc = "live_test"
    /\ calls' = Append(calls, Call("test", <<"get_validation_with_gold">>))
    /\ Goto("live_report")
    /\ UNCHANGED <<config, seedSet, loggerCreated, results_logger, resultsLog,
                   prepared, wdaccess_p, files>>
    /\ UNCHANGED <<objVars, encVars, rankVars>>

\* lines 89-93: len(successes) / len(validation_gold_answers)
LiveReport ==
    /\ pc = "live_report"
    /\ IF config.nGold = 0
       THEN resultsLog' = resultsLog /\ Raise("ZeroDivisionError")
       ELSE /\ resultsLog' = IF results_logger
                             THEN resultsLog \o <<"successes", "avg_metrics">>
                             ELSE resultsLog
            /\ Goto("done")
    /\ UNCHANGED <<config, seedSet, loggerCreated, results_logger, calls,
                   prepared, wdaccess_p, files>>
    /\ UNCHANGED <<objVars, encVars, rankVars>>

\* webquestions_io.WebQuestions: the part of the dataset an accessor reads.
SplitOf(accessor) ==
    IF accessor \in {"get_training_samples", "get_training_generator",
                     "get_full_training", "get_training_tokens"}
    THEN "train"
    ELSE IF accessor \in {"get_validation_samples", "get_full_validation",
                          "get_validation_with_gold"}
    THEN "validation"
    ELSE "none"

TrainNext ==
    \/ LoadConfig
    \/ Setup
    \/ SetupResultsLogger
    \/ LoadDataset
    \/ CreateModel
    \/ DriverPrepareModel
    \/ Train
    \/ TestOnSilver
    \/ DumpSilverPredictions
    \/ LogSilver
    \/ LiveGate
    \/ LiveInit
    \/ LiveTest
    \/ LiveReport

(***************************************************************************)
(* Part 2: the vocabulary of CharCNNModel and YihModel objects.            *)
(***************************************************************************)
MaxTokens == 3        \* tokens per sentence of train_tokens: 0..MaxTokens
MaxSentences == 1     \* sentences of train_tokens: 0..MaxSentences

KerasClasses == {"CharCNNModel", "YihModel"}
Objects == {1, 2}     \* two model objects that share the save directory

\* Characters in their code-point order, and the tokens of the sample data.
CharOrder == <<" ", "a", "b", "c", "d">>
Tokens == { <<"a", "b", "c">>, <<"b", "c", "d">> }

SeqsUpTo(S, n) == UNION { [1..k -> S] : k \in 0..n }
Sentences == SeqsUpTo(Tokens, MaxTokens)
TrainTokenSets == SeqsUpTo(Sentences, MaxSentences)

Range(f) == { f[x] : x \in DOMAIN f }
IsEmpty(v) == DOMAIN v = {}               \* "not v" of a list or a dict
VocabLen(v) == Cardinality(DOMAIN v)      \* len(v)

\* input_to_indices.string_to_trigrams: the three-character substrings.
string_to_trigrams(token) ==
    { SubSeq(token, i, i + 2) : i \in 1..(Len(token) - 2) }

\* The set comprehension of lines 123-125.
TrigramSet(train_tokens) ==
    UNION { UNION { string_to_trigrams(tokens[j]) : j \in DOMAIN tokens }
            : tokens \in Range(train_tokens) }

\* list(a set): the elements once each, in the set's iteration order, which
\* for a set of tuples of str follows the process's string hash seed.
Orderings(S) ==
    { o \in [1..Cardinality(S) -> S] : Range(o) = S }

RECURSIVE Join(_)
\* " ".join(tokens) of line 38
Join(tokens) ==
    IF Len(tokens) = 0 THEN <<>>
    ELSE IF Len(tokens) = 1 THEN tokens[1]
    ELSE tokens[1] \o <<" ">> \o Join(Tail(tokens))

\* input_to_indices.get_character_index: the characters of the sentences,
\* numbered from 1 in code-point order.
get_character_index(sentences) ==
    LET present == UNION { Range(sentences[i]) : i \in DOMAIN sentences }
        ordered == SelectSeq(CharOrder, LAMBDA c : c \in present)
    IN  [c \in present |-> CHOOSE i \in DOMAIN ordered : ordered[i] = c]

\* json.dump(self._trigram_vocabulary): a JSON array of JSON arrays.
DumpTrigrams(v) == [i \in DOMAIN v |-> [array |-> v[i]]]
\* [tuple(t) for t in json.load(f)] of lines 178-179
LoadTrigrams(j) == [i \in DOMAIN j |-> j[i].array]

\* json.dump(self._character2idx): a JSON object, its members in key order.
DumpCharacters(v) ==
    LET keys == SelectSeq(CharOrder, LAMBDA c : c \in DOMAIN v)
    IN  [i \in DOMAIN keys |-> [key |-> keys[i], value |-> v[keys[i]]]]
\* json.load(f) of lines 100-101: a dict
LoadCharacters(j) ==
    [c \in { j[i].key : i \in DOMAIN j } |->
        (CHOOSE m \in Range(j) : m.key = c).value]

File(content) == [exists |-> TRUE, content |-> content]
Missing == [exists |-> FALSE, content |-> <<>>]

Op(op, r, built) == [op |-> op, obj |-> r, built |-> built]

ObjInit ==
    /\ klass \in KerasClasses
    /\ vocabulary = [r \in Objects |-> <<>>]
    /\ vocabSize = [r \in Objects |-> -1]
    /\ kerasModel = [r \in Objects |-> FALSE]
    /\ siblingModel = [r \in Objects |-> FALSE]
    /\ disk = Missing
    /\ lastOp = Op("none", 0, FALSE)
    /\ corpus = <<>>

\* prepare_model without the emptiness test of lines 37 and 122.
AlwaysBuild(v) == TRUE

\* "if not self._character2idx", "if not self._trigram_vocabulary"
NeedsBuild(v) == IsEmpty(v)

\* TwinsModel.prepare_model: builds the keras model from _get_keras_model.
SuperPrepareModel(r) ==
    kerasModel' = [kerasModel EXCEPT ![r] = TRUE]

\* TwinsModel.load_from_file: loads the saved keras model.
SuperLoadFromFile(r) ==
    /\ kerasModel' = [kerasModel EXCEPT ![r] = TRUE]
    /\ siblingModel' = [siblingModel EXCEPT ![r] = TRUE]

\* CharCNNModel.prepare_model, lines 36-45
CharCNNModel_prepare_model(r, train_tokens) ==
    /\ IF NeedsBuild(vocabulary[r])
       THEN LET idx == get_character_index(
                           [i \in DOMAIN train_tokens |-> Join(train_tokens[i])])
            IN  /\ vocabulary' = [vocabulary EXCEPT ![r] = idx]
                /\ disk' = File(DumpCharacters(idx))
                /\ lastOp' = Op("prepare_model", r, TRUE)
       ELSE /\ UNCHANGED <<vocabulary, disk>>
            /\ lastOp' = Op("prepare_model", r, FALSE)
    /\ vocabSize' = [vocabSize EXCEPT ![r] = VocabLen(vocabulary'[r])]
    /\ SuperPrepareModel(r)
    /\ siblingModel' = [siblingModel EXCEPT ![r] = TRUE]

\* YihModel.prepare_model, lines 121-132
YihModel_prepare_model(r, train_tokens) ==
    /\ IF NeedsBuild(vocabulary[r])
       THEN \E order \in Orderings(TrigramSet(train_tokens)) :
                /\ vocabulary' = [vocabulary EXCEPT ![r] = order]
                /\ disk' = File(DumpTrigrams(order))
                /\ lastOp' = Op("prepare_model", r, TRUE)
       ELSE /\ UNCHANGED <<vocabulary, disk>>
            /\ lastOp' = Op("prepare_model", r, FALSE)
    /\ vocabSize' = [vocabSize EXCEPT ![r] = VocabLen(vocabulary'[r])]
    /\ SuperPrepareModel(r)
    /\ siblingModel' = [siblingModel EXCEPT ![r] = TRUE]

prepare_model(r, train_tokens) ==
    /\ IF klass = "CharCNNModel"
       THEN CharCNNModel_prepare_model(r, train_tokens)
       ELSE YihModel_prepare_model(r, train_tokens)
    /\ UNCHANGED <<klass, corpus>>
    /\ UNCHANGED <<trainVars, encVars, rankVars>>

\* CharCNNModel.load_from_file, lines 96-103;  YihModel.load_from_file,
\* lines 173-181.  open() of a file that is not there raises.
load_from_file(r) ==
    /\ disk.exists
    /\ SuperLoadFromFile(r)
    /\ vocabulary' = [vocabulary EXCEPT ![r] =
            IF klass = "CharCNNModel" THEN LoadCharacters(disk.content)
            ELSE LoadTrigrams(disk.content)]
    /\ vocabSize' = [vocabSize EXCEPT ![r] = VocabLen(vocabulary'[r])]
    /\ lastOp' = Op("load_from_file", r, FALSE)
    /\ UNCHANGED <<klass, disk, corpus>>
    /\ UNCHANGED <<trainVars, encVars, rankVars>>

VocabNext ==
    \/ \E r \in Objects, train_tokens \in TrainTokenSets :
           prepare_model(r, train_tokens)
    \/ \E r \in Objects : load_from_file(r)

\* Two runs of prepare_model, each on a fresh object, on the same train_tokens.
RunsInit ==
    /\ klass \in KerasClasses
    /\ corpus \in TrainTokenSets
    /\ vocabulary = [r \in Objects |-> <<>>]
    /\ vocabSize = [r \in Objects |-> -1]
    /\ kerasModel = [r \in Objects |-> FALSE]
    /\ siblingModel = [r \in Objects |-> FALSE]
    /\ disk = Missing
    /\ lastOp = Op("none", 0, FALSE)

RunsNext ==
    \E r \in Objects : ~kerasModel[r] /\ prepare_model(r, corpus)


(***************************************************************************)
(* Part 3: encode_data_instance.                                           *)
(***************************************************************************)
MaxSentLen == 4       \* configured 'max.sent.len': 1..MaxSentLen
MaxEdges == 2         \* candidate edges of an instance: 0..MaxEdges

DefaultMaxSentLenChar == 70
DefaultMaxSentLenYih == 10

\* wdaccess.property2label: the label of a property, as its tokens.
Properties == {"P1", "P2", "P3"}
property2label ==
    [q \in Properties |->
        CASE q = "P1" -> << <<"a", "b", "c">> >>
          [] q = "P2" -> << <<"a", "b", "c">>, <<"b", "c", "d">> >>
          [] q = "P3" -> <<>>]

Instances == [tokens : Sentences, edges : SeqsUpTo(Properties, MaxEdges)]

\* dict.get(key, default)
Get(p, key, default) == IF key \in DOMAIN p THEN p[key] ELSE default
NoParams == [k \in {} |-> 0]
ParamSets == {NoParams} \cup { [k \in {"max.sent.len"} |-> n] : n \in 1..MaxSentLen }

\* input_to_indices.encode_by_character: the index of each character of the
\* question and of each edge label; an unknown character gets index 0.
CharIds(chars, character2idx) ==
    [i \in DOMAIN chars |-> Get(character2idx, chars[i], 0)]
encode_by_character(inst, character2idx) ==
    << CharIds(Join(inst.tokens), character2idx),
       [e \in DOMAIN inst.edges |->
            CharIds(Join(property2label[inst.edges[e]]), character2idx)] >>

RECURSIVE BitSum(_, _)
BitSum(hits, n) ==
    IF n = 0 THEN 0
    ELSE BitSum(hits, n - 1) + (IF n \in hits THEN 2 ^ (n - 1) ELSE 0)
\* input_to_indices.encode_by_trigram: per token the vocabulary trigrams it
\* holds, as a vector over the vocabulary (line 137: max.sent.len rows of
\* vocab.size entries), written here as the integer with these bits set.
TrigramHash(token, trigram_vocabulary) ==
    BitSum({ i \in DOMAIN trigram_vocabulary :
                 trigram_vocabulary[i] \in string_to_trigrams(token) },
           Len(trigram_vocabulary))
TokenIds(tokens, trigram_vocabulary) ==
    [i \in DOMAIN tokens |-> TrigramHash(tokens[i], trigram_vocabulary)]
encode_by_trigram(inst, trigram_vocabulary) ==
    << TokenIds(inst.tokens, trigram_vocabulary),
       [e \in DOMAIN inst.edges |->
            TokenIds(property2label[inst.edges[e]], trigram_vocabulary)] >>

\* keras.preprocessing.sequence.pad_sequences(sequences, maxlen=..., padding=...,
\* truncating=..., dtype="int32"): one row of maxlen entries per sequence.
pad_sequence_row(s, maxlen, padding, truncating) ==
    LET trunc == IF Len(s) <= maxlen THEN s
                 ELSE IF truncating = "post" THEN SubSeq(s, 1, maxlen)
                 ELSE SubSeq(s, Len(s) - maxlen + 1, Len(s))
        fill == [i \in 1..(maxlen - Len(trunc)) |-> 0]
    IN  IF padding = "post" THEN trunc \o fill ELSE fill \o trunc
pad_sequences(sequences, maxlen, padding, truncating) ==
    [i \in DOMAIN sequences |-> pad_sequence_row(sequences[i], maxlen, padding, truncating)]

Encoded(sentence_ids, edges_ids) ==
    [done |-> TRUE, sentence_ids |-> sentence_ids, edges_ids |-> edges_ids]
NotEncoded == [done |-> FALSE, sentence_ids |-> <<>>, edges_ids |-> <<>>]

\* CharCNNModel.encode_data_instance with pad_sequences' default truncating='pre'.
CharCNNModel_encode_truncating_pre(inst, character2idx, p) ==
    LET ids == encode_by_character(inst, character2idx)
        maxlen == Get(p, "max.sent.len", DefaultMaxSentLenChar)
    IN  Encoded(pad_sequences(<<ids[1]>>, maxlen, "post", "pre"),
                pad_sequences(ids[2], maxlen, "post", "pre"))

\* CharCNNModel.encode_data_instance, lines 28-34
CharCNNModel_encode_data_instance(inst, character2idx, p) ==
    LET ids == encode_by_character(inst, character2idx)
        maxlen == Get(p, "max.sent.len", DefaultMaxSentLenChar)
    IN  Encoded(pad_sequences(<<ids[1]>>, maxlen, "post", "post"),
                pad_sequences(ids[2], maxlen, "post", "post"))

\* YihModel.encode_data_instance, lines 167-171
YihModel_encode_data_instance(inst, trigram_vocabulary, p) ==
    LET ids == encode_by_trigram(inst, trigram_vocabulary)
        maxlen == Get(p, "max.sent.len", DefaultMaxSentLenYih)
    IN  Encoded(pad_sequences(<<ids[1]>>, maxlen, "post", "post"),
                pad_sequences(ids[2], maxlen, "post", "post"))

\* Vocabularies a prepared model can hold (prepare_model on a small corpus).
EncodeCorpora == SeqsUpTo(SeqsUpTo(Tokens, 1), 1)
EncodeVocabularies(k) ==
    IF k = "CharCNNModel"
    THEN { get_character_index([i \in DOMAIN t |-> Join(t[i])]) : t \in EncodeCorpora }
    ELSE UNION { Orderings(TrigramSet(t)) : t \in EncodeCorpora }

EncodeInit ==
    /\ klass \in KerasClasses
    /\ \E v \in EncodeVocabularies(klass) : vocabulary = [r \in Objects |-> v]
    /\ vocabSize = [r \in Objects |-> VocabLen(vocabulary[r])]
    /\ kerasModel = [r \in Objects |-> TRUE]
    /\ siblingModel = [r \in Objects |-> TRUE]
    /\ disk = Missing
    /\ lastOp = Op("none", 0, FALSE)
    /\ corpus = <<>>
    /\ params \in ParamSets
    /\ instance \in Instances
    /\ encoded = NotEncoded

EncIdle ==
    /\ params = NoParams
    /\ instance = [tokens |-> <<>>, edges |-> <<>>]
    /\ encoded = NotEncoded

encode_data_instance ==
    /\ ~encoded.done
    /\ encoded' = IF klass = "CharCNNModel"
                  THEN CharCNNModel_encode_data_instance(instance, vocabulary[1], params)
                  ELSE YihModel_encode_data_instance(instance, vocabulary[1], params)
    /\ UNCHANGED <<params, instance>>
    /\ UNCHANGED <<trainVars, objVars, rankVars>>

EncodeNext == encode_data_instance

(***************************************************************************)
(* Part 4: CharCNNModel.apply_on_instance.                                 *)
(***************************************************************************)
MaxCandidates == 3    \* candidate edges ranked: 0..MaxCandidates

EmbDims == {1, 2}
EmbVals == {-1, 0, 1}
Embeddings == [EmbDims -> EmbVals]

RECURSIVE SumOver(_, _)
SumOver(f, S) ==
    IF S = {} THEN 0
    ELSE LET x == CHOOSE y \in S : TRUE IN f[x] + SumOver(f, S \ {x})
Dot(u, v) == SumOver([d \in DOMAIN u |-> u[d] * v[d]], DOMAIN u)

\* np.dot(sentence_embedding, np.swapaxes(edge_embeddings, 0, 1)), line 24
predictions(sentence, edges) ==
    [j \in DOMAIN edges |-> Dot(sentence, edges[j])]

RECURSIVE InsertByScore(_, _, _)
\* puts index i into the index sequence `sorted`, after every index whose
\* score is not larger
InsertByScore(sorted, i, scores) ==
    IF sorted = <<>> THEN <<i>>
    ELSE IF scores[i + 1] < scores[sorted[1] + 1]
         THEN <<i>> \o sorted
         ELSE <<sorted[1]>> \o InsertByScore(Tail(sorted), i, scores)
RECURSIVE argsort_prefix(_, _)
argsort_prefix(scores, n) ==
    IF n = 0 THEN <<>>
    ELSE InsertByScore(argsort_prefix(scores, n - 1), n - 1, scores)
\* np.argsort(a): the 0-based indices of a in ascending order of value (an
\* insertion sort, as numpy runs on arrays this short).
argsort(scores) == argsort_prefix(scores, Len(scores))

\* a[::-1]
Reversed(a) == [i \in DOMAIN a |-> a[Len(a) + 1 - i]]

\* apply_on_instance without the [::-1] of line 26.
apply_on_instance_ascending(sentence, edges) ==
    argsort(predictions(sentence, edges))

\* CharCNNModel.apply_on_instance, lines 20-26, from the two embeddings on
apply_on_instance_result(sentence, edges) ==
    Reversed(argsort(predictions(sentence, edges)))

NotRanked == [done |-> FALSE, order |-> <<>>]

RankInit ==
    /\ sentence_embedding \in Embeddings
    /\ edge_embeddings \in SeqsUpTo(Embeddings, MaxCandidates)
    /\ ranking = NotRanked

RankIdle ==
    /\ sentence_embedding = [d \in EmbDims |-> 0]
    /\ edge_embeddings = <<>>
    /\ ranking = NotRanked

apply_on_instance ==
    /\ ~ranking.done
    /\ ranking' = [done |-> TRUE,
                   order |-> apply_on_instance_result(sentence_embedding, edge_embeddings)]
    /\ UNCHANGED <<sentence_embedding, edge_embeddings>>
    /\ UNCHANGED <<trainVars, objVars, encVars>>

RankNext == apply_on_instance

(***************************************************************************)
(* The specifications.                                                     *)
(***************************************************************************)
ObjIdle ==
    /\ klass = "CharCNNModel"
    /\ vocabulary = [r \in Objects |-> <<>>]
    /\ vocabSize = [r \in Objects |-> -1]
    /\ kerasModel = [r \in Objects |-> FALSE]
    /\ siblingModel = [r \in Objects |-> FALSE]
    /\ disk = Missing
    /\ lastOp = Op("none", 0, FALSE)
    /\ corpus = <<>>

InitTrain == TrainInit /\ ObjIdle /\ EncIdle /\ RankIdle
InitVocab == TrainIdle /\ ObjInit /\ EncIdle /\ RankIdle
InitRuns == TrainIdle /\ RunsInit /\ EncIdle /\ RankIdle
InitEncode == TrainIdle /\ EncodeInit /\ RankIdle
InitRank == TrainIdle /\ ObjIdle /\ EncIdle /\ RankInit

SpecTrain == InitTrain /\ [][TrainNext]_vars
SpecVocab == InitVocab /\ [][VocabNext]_vars
SpecRuns == InitRuns /\ [][RunsNext]_vars
SpecEncode == InitEncode /\ [][EncodeNext]_vars
SpecRank == InitRank /\ [][RankNext]_vars

Init == InitTrain
Next == TrainNext
Spec == Init /\ [][Next]_vars

(***************************************************************************)
(* Properties.                                                             *)
(***************************************************************************)
TrainingFns == {"train", "train_on_generator"}
CallsOf(names) == { i \in DOMAIN calls : calls[i].fn \in names }
Before(first, second) ==
    \A j \in CallsOf(second) : \E i \in CallsOf(first) : i < j

\* ---- C1 ----
ConfiguredLen ==
    IF "max.sent.len" \in DOMAIN params THEN params["max.sent.len"]
    ELSE IF klass = "CharCNNModel" THEN 70 ELSE 10
RawIds ==
    IF klass = "CharCNNModel" THEN encode_by_character(instance, vocabulary[1])
    ELSE encode_by_trigram(instance, vocabulary[1])
FixedRow(row, raw, L) ==
    /\ Len(row) = L
    /\ \A i \in 1..L : row[i] = IF i <= Len(raw) THEN raw[i] ELSE 0

\* C1: encode_data_instance returns a question array of exactly 1 row and an
\* edge array with one row per candidate edge; every row has exactly L =
\* max.sent.len entries (default 70 for CharCNNModel, 10 for YihModel): the
\* first L entries of a longer encoded sequence, or all entries of a shorter
\* one followed by zeros.
EncodeFixedLength ==
    encoded.done =>
        /\ Len(encoded.sentence_ids) = 1
        /\ FixedRow(encoded.sentence_ids[1], RawIds[1], ConfiguredLen)
        /\ Len(encoded.edges_ids) = Len(instance.edges)
        /\ \A e \in DOMAIN instance.edges :
               FixedRow(encoded.edges_ids[e], RawIds[2][e], ConfiguredLen)

\* An encoded instance whose question was truncated and with two candidate
\* edges, one of them padded and one of them truncated.
EncodeWitness ==
    /\ encoded.done
    /\ Len(RawIds[1]) > ConfiguredLen
    /\ Len(instance.edges) = 2
    /\ \E e \in DOMAIN instance.edges :
           Len(RawIds[2][e]) > 0 /\ Len(RawIds[2][e]) < ConfiguredLen
    /\ \E e \in DOMAIN instance.edges : Len(RawIds[2][e]) > ConfiguredLen

\* ---- C2 ----
\* C2: two runs of prepare_model, each started with an empty vocabulary on
\* the same train_tokens, end with the same vocabulary (same symbols at the
\* same positions) and the same vocab.size.
VocabularyDeterministic ==
    (kerasModel[1] /\ kerasModel[2]) =>
        /\ vocabulary[1] = vocabulary[2]
        /\ vocabSize[1] = vocabSize[2]

\* ---- C3 ----
\* C3: for a valid config whose model class is CharCNNModel or YihModel the
\* driver never stops in an error state: its prepare_model call is accepted,
\* and a finished run has prepared the model, trained and evaluated offline.
TrainingRunCompletes ==
    (config.training /\ config.logResults /\ config.nGold > 0
        /\ IsKerasModel(config.class)) =>
        /\ error = "none"
        /\ pc # "error"
        /\ pc = "done" =>
              /\ prepared
              /\ CallsOf(TrainingFns) # {}
              /\ CallsOf({"test_on_silver"}) # {}

\* ---- C4 ----
\* C4: with no "training" section in the config the driver exits right after
\* loading it: no seed, no logger, no results log, no dataset, no vocabulary
\* or model, no file written, no training or evaluation call.
NoTrainingSectionExits ==
    ~config.training =>
        /\ pc \in {"load_config", "exited"}
        /\ ~seedSet
        /\ ~loggerCreated
        /\ ~results_logger
        /\ resultsLog = <<>>
        /\ calls = <<>>
        /\ ~prepared
        /\ files = {}
        /\ wdaccess_p = WdaccessDefault
        /\ error = "none"

NoTrainingWitness == ~config.training /\ pc = "exited"

\* ---- C5 ----
PipelineRank(fn) ==
    CASE fn = "WebQuestions" -> 1
      [] fn = "prepare_model" -> 2
      [] fn \in TrainingFns -> 3
      [] fn = "test_on_silver" -> 4
      [] fn = "sparql_init" -> 5
      [] fn = "update_sparql_clauses" -> 6
      [] fn = "test" -> 7
      [] OTHER -> 0

\* C5: the pipeline calls of a run happen in the order load dataset,
\* prepare_model, train, test_on_silver, sparql_init, test, each at most once,
\* and none without its predecessor before it; no evaluation call precedes
\* the training call.
PipelineOrder ==
    /\ \A i, j \in DOMAIN calls :
           i < j => PipelineRank(calls[i].fn) < PipelineRank(calls[j].fn)
    /\ \A i \in DOMAIN calls : PipelineRank(calls[i].fn) > 0
    /\ Before({"WebQuestions"}, {"prepare_model"} \cup TrainingFns)
    /\ Before(TrainingFns, {"test_on_silver", "test"})
    /\ Before({"test_on_silver"}, {"sparql_init"})
    /\ Before({"sparql_init"}, {"test"})
    /\ (IsKerasModel(config.class) /\ CallsOf(TrainingFns) # {}) =>
           CallsOf({"prepare_model"}) # {}

PipelineWitness ==
    /\ pc = "done"
    /\ CallsOf({"test"}) # {}
    /\ CallsOf({"train_on_generator"}) # {}

\* ---- C6 ----
\* C6 as claimed: the labeled set passed to test_on_silver is data that was
\* not passed to the training call of the run.
SilverSetHeldOut ==
    \A j \in CallsOf({"test_on_silver"}) : \A i \in CallsOf(TrainingFns) :
        SplitOf(calls[j].args[1])
            \notin { SplitOf(calls[i].args[k]) : k \in DOMAIN calls[i].args }

\* C6, amended: with a 'train_validation' path test_on_silver gets
\* get_full_validation(), the validation data, which the training call got
\* only as validation_with_targets and not as its training data; without one
\* it gets get_full_training(), the data the training call was trained on.
SilverSetByValidationPath ==
    \A j \in CallsOf({"test_on_silver"}) : \A i \in CallsOf(TrainingFns) :
        IF config.trainValidation
        THEN /\ calls[j].args = <<"get_full_validation">>
             /\ SplitOf(calls[j].args[1]) # SplitOf(calls[i].args[1])
             /\ calls[i].args[2] = "get_validation_samples"
        ELSE /\ calls[j].args = <<"get_full_training">>
             /\ SplitOf(calls[j].args[1]) = SplitOf(calls[i].args[1])
             /\ calls[i].args[2] = None

SilverOnTrainingWitness ==
    /\ ~config.trainValidation
    /\ CallsOf({"test_on_silver"}) # {}
    /\ CallsOf(TrainingFns) # {}

\* ---- C7 ----
\* C7: prepare_model builds the vocabulary and writes the artifact only when
\* the vocabulary is empty; with a non-empty vocabulary a prepare_model call
\* leaves vocabulary and artifact unchanged; and after every prepare_model
\* or load_from_file vocab.size is the number of vocabulary entries.
VocabularyBuiltOnce ==
    /\ [](\A r \in Objects :
             vocabSize[r] # -1 => vocabSize[r] = VocabLen(vocabulary[r]))
    /\ [](lastOp.op # "none" =>
             vocabSize[lastOp.obj] = VocabLen(vocabulary[lastOp.obj]))
    /\ [][ /\ (lastOp'.op = "prepare_model"
                 /\ ~IsEmpty(vocabulary[lastOp'.obj])) =>
                   (vocabulary' = vocabulary /\ disk' = disk /\ ~lastOp'.built)
           /\ disk' # disk =>
                   /\ lastOp'.op = "prepare_model"
                   /\ IsEmpty(vocabulary[lastOp'.obj])
           /\ \A r \in Objects : vocabulary'[r] # vocabulary[r] =>
                   /\ lastOp'.obj = r
                   /\ lastOp'.op = "prepare_model" => IsEmpty(vocabulary[r])
         ]_vars

\* Object 1 built and wrote the vocabulary, object 2 read it, and a later
\* prepare_model call on object 2 reused it.
VocabularyReusedWitness ==
    /\ lastOp = Op("prepare_model", 2, FALSE)
    /\ ~IsEmpty(vocabulary[2])
    /\ vocabulary[1] = vocabulary[2]
    /\ disk.exists

\* ---- C8 ----
LiveFns == {"sparql_init", "update_sparql_clauses", "test"}

\* C8: the driver changes the backend parameters, initialises the backend
\* and calls test only when wikidata.evaluate is true and the dataset config
\* has a 'train_validation' path; in every other run it does none of these;
\* and the backend is configured and initialised before test is called.
LiveEvaluationGated ==
    /\ (wdaccess_p # WdaccessDefault \/ CallsOf(LiveFns) # {}) =>
           (config.evaluate /\ config.trainValidation)
    /\ CallsOf({"test"}) # {} =>
           /\ wdaccess_p = WdaccessConfigured
           /\ Before({"sparql_init"}, {"test"})
           /\ Before({"update_sparql_clauses"}, {"test"})
    /\ pc = "done" =>
           (CallsOf({"test"}) # {} <=> (config.evaluate /\ config.trainValidation))

LiveEvaluationWitness ==
    /\ pc = "live_report"
    /\ calls[Len(calls)].fn = "test"
    /\ config.evaluate /\ config.trainValidation

\* ---- C9 ----
Score(k) == Dot(sentence_embedding, edge_embeddings[k + 1])

\* C9: for n candidate edges apply_on_instance returns a permutation of
\* 0..n-1 along which the scores (question embedding dot edge embedding) are
\* non-increasing, so the first index has a maximal score.
RankingDescending ==
    ranking.done =>
        LET n == Len(edge_embeddings)
            o == ranking.order
        IN  /\ Len(o) = n
            /\ Range(o) = 0..(n - 1)
            /\ \A i, j \in 1..n : i < j => Score(o[i]) >= Score(o[j])
            /\ n > 0 => \A k \in 0..(n - 1) : Score(o[1]) >= Score(k)

\* Three candidates with three different scores, the best one last.
RankingWitness ==
    /\ ranking.done
    /\ Len(edge_embeddings) = 3
    /\ Score(0) < Score(1)
    /\ Score(1) < Score(2)

\* ---- C10 ----
\* C10: the results log is created and written only with 'log.results' in
\* the training config, and a run without it still trains, evaluates offline
\* and finishes without an error.
ResultsLoggingOptional ==
    /\ (results_logger \/ resultsLog # <<>> \/ "log.results" \in files) =>
           config.logResults
    /\ (config.training /\ ~config.logResults
            /\ CallsOf({"test_on_silver"}) # {}) =>
           /\ error = "none"
           /\ pc # "error"


====
